---- MODULE Spec2Model ----
(***************************************************************************)
(* goll: a command-line tool that chains calls to the Ollama generate API. *)
(* The model follows run() of cmd/goll/main.go (the version with the -r    *)
(* flag) together with the two versions of the ollama.Generate client that *)
(* the repository holds: internal/ollama/generate.go (prompt.txt and       *)
(* system.txt are read by Post, a config.json error is dropped) and the    *)
(* later one with format.json support (everything is read by NewGenerate). *)
(* Texts are sequences of one-character strings, durations are 64-bit      *)
(* two's complement words held as eight base-256 limbs, least limb first.  *)
(***************************************************************************)
EXTENDS Integers, Sequences, FiniteSets, TLC

VARIABLES
    build,      \* which version of package ollama is linked
    args,       \* the args struct handed to run
    settings,   \* tool.Settings read from settings.json
    fs,         \* the folders on disk: path -> files
    disk0,      \* history: the folders on disk when the run began
    now,        \* wall clock, in seconds
    pc,         \* position of the main goroutine inside run
    index,      \* loop variable of run
    gen,        \* the ollama.Generate value of the current step
    call,       \* the outstanding call of client.Do, if any
    resp,       \* what Post returned last: (Response, error)
    result,     \* what run returned
    ctxDone,    \* the root context has been cancelled
    sigChan,    \* the signal channel: buffer, closed, registered with Notify
    handler,    \* position of the signal handling goroutine
    spinner,    \* state of the spinner goroutine
    spinOpen,   \* the spin channel has not been closed
    proc,       \* the process: running, exited, killed or panicked
    requests,   \* history: every POST that reached the endpoint
    io,         \* history: every file access, <<step, path, file, op>>
    outputs,    \* history: the Response.Output each step received
    calc        \* the computations of run on one response, taken alone

vars == <<build, args, settings, fs, disk0, now, pc, index, gen, call, resp, result,
          ctxDone, sigChan, handler, spinner, spinOpen, proc, requests, io,
          outputs, calc>>

-----------------------------------------------------------------------------
(* Bounds of the model *)

MaxSteps == 3

MaxClock == 1

-----------------------------------------------------------------------------
(* 64-bit arithmetic of time.Duration *)

Limbs == 8

Base == 256

Sign == 128

NanosPerSecond == 1000000000

Word64 == [1..Limbs -> 0..(Base - 1)]

Zero64 == [i \in 1..Limbs |-> 0]

\* the limbs of a natural number below 2^31
Nat64(n) ==
    [i \in 1..Limbs |->
        IF i = 1 THEN n % Base
        ELSE IF i = 2 THEN (n \div Base) % Base
        ELSE IF i = 3 THEN (n \div (Base * Base)) % Base
        ELSE IF i = 4 THEN n \div (Base * Base * Base)
        ELSE 0]

Add64(a, b) ==
    LET C[k \in 0..Limbs] ==
            IF k = 0 THEN 0 ELSE (a[k] + b[k] + C[k - 1]) \div Base
    IN  [k \in 1..Limbs |-> (a[k] + b[k] + C[k - 1]) % Base]

Neg64(a) == Add64([i \in 1..Limbs |-> Base - 1 - a[i]], Nat64(1))

\* int64(n) for a Go int of small magnitude
Int64(n) == IF n >= 0 THEN Nat64(n) ELSE Neg64(Nat64(0 - n))

\* a * b modulo 2^64, as Go multiplies two int64
Mul64(a, b) ==
    LET Coef(k) ==
            LET S[i \in 0..k] ==
                    IF i = 0 THEN 0 ELSE S[i - 1] + a[i] * b[k + 1 - i]
            IN  S[k]
        C[k \in 0..Limbs] ==
            IF k = 0 THEN 0 ELSE (Coef(k) + C[k - 1]) \div Base
    IN  [k \in 1..Limbs |-> (Coef(k) + C[k - 1]) % Base]

IsNeg64(a) == a[Limbs] >= Sign

\* a <= b for two non-negative words
Leq64(a, b) ==
    LET L[k \in 0..Limbs] ==
            IF k = 0 THEN TRUE
            ELSE IF a[k] < b[k] THEN TRUE
            ELSE IF a[k] > b[k] THEN FALSE
            ELSE L[k - 1]
    IN  L[Limbs]

\* time.Second
Second == Nat64(NanosPerSecond)

\* time.Duration(n) * time.Second
Seconds(d) == Mul64(d, Second)

-----------------------------------------------------------------------------
(* Texts and the removal of reasoning blocks *)

OpenTag == <<"<", "t", "h", "i", "n", "k", ">">>

CloseTag == <<"<", "/", "t", "h", "i", "n", "k", ">">>

\* the least i >= from where pat occurs in s, or 0
RECURSIVE IndexFrom(_, _, _)
IndexFrom(s, pat, from) ==
    IF from + Len(pat) - 1 > Len(s) THEN 0
    ELSE IF SubSeq(s, from, from + Len(pat) - 1) = pat THEN from
    ELSE IndexFrom(s, pat, from + 1)

\* regexp (?s)<think>.*?</think> replaced by "" in s from position pos on:
\* leftmost match first, each match as short as possible, matches disjoint
RECURSIVE ReplaceFrom(_, _)
ReplaceFrom(s, pos) ==
    LET p == IndexFrom(s, OpenTag, pos)
        q == IF p = 0 THEN 0 ELSE IndexFrom(s, CloseTag, p + Len(OpenTag))
    IN  IF p = 0 \/ q = 0 THEN SubSeq(s, pos, Len(s))
        ELSE SubSeq(s, pos, p - 1) \o ReplaceFrom(s, q + Len(CloseTag))

\* the greatest i where pat occurs in s, or 0
RECURSIVE LastIndex(_, _, _)
LastIndex(s, pat, from) ==
    IF from < 1 THEN 0
    ELSE IF from + Len(pat) - 1 <= Len(s) /\ SubSeq(s, from, from + Len(pat) - 1) = pat
    THEN from
    ELSE LastIndex(s, pat, from - 1)

\* a removal with the greedy (?s)<think>.*</think>: from the first open
\* marker to the last close marker
GreedyOutput(s) ==
    LET p == IndexFrom(s, OpenTag, 1)
        q == LastIndex(s, CloseTag, Len(s))
    IN  IF p = 0 \/ q < p + Len(OpenTag) THEN s
        ELSE SubSeq(s, 1, p - 1) \o SubSeq(s, q + Len(CloseTag), Len(s))

\* re.ReplaceAllString(resp.Output, "")
CleanedOutput(s) == ReplaceFrom(s, 1)

-----------------------------------------------------------------------------
(* The metrics of a response *)

\* a float64 as "%.2f" prints it: a number in hundredths, +Inf or NaN
NoMetric == [kind |-> "none", hundredths |-> 0]

Number(h) == [kind |-> "number", hundredths |-> h]

PosInf == [kind |-> "+Inf", hundredths |-> 0]

NaN == [kind |-> "NaN", hundredths |-> 0]

\* a hundredth of a second, in nanoseconds
Hundredth == NanosPerSecond \div 100

\* evalTime := float64(resp.EvalDuration) / 1e9
\* tps := float64(resp.EvalCount) / evalTime
\* for a count >= 0 and a duration that is a whole number of hundredths of
\* a second; a float64 division by 0 gives +Inf, and NaN for 0 / 0
Tps(evalCount, evalDuration) ==
    IF evalDuration = 0
    THEN (IF evalCount = 0 THEN NaN ELSE PosInf)
    ELSE LET t == evalDuration \div Hundredth
         IN  Number((evalCount * 10000 + t \div 2) \div t)

\* nothing is computed
NoCalc ==
    [pieces |-> <<>>, texts |-> <<>>, evalCount |-> 0, evalDuration |-> 0,
     tps |-> NoMetric]

-----------------------------------------------------------------------------
(* Files and folders *)

\* a text file: missing, or holding text
NoFile == [ok |-> FALSE, text |-> <<>>]

File(t) == [ok |-> TRUE, text |-> t]

OptionNames == {"num_ctx", "repeat_last_n", "repeat_penalty", "temperature"}

\* newModelOptions / NewModelOptions; the two float64 fields are in tenths
NewModelOptions ==
    [o \in OptionNames |->
        CASE o = "num_ctx" -> 2048
          [] o = "repeat_last_n" -> 64
          [] o = "repeat_penalty" -> 11
          [] o = "temperature" -> 8]

\* the defaults as the comments of the modelOptions fields document them
DocumentedOptions ==
    [num_ctx |-> 2048, repeat_last_n |-> 64, repeat_penalty |-> 11,
     temperature |-> 8]

\* the zero value ModelConfig{}
EmptyModelConfig ==
    [model |-> "", system |-> <<>>, options |-> [o \in OptionNames |-> 0],
     format |-> ""]

\* config.json: state is "absent", "malformed" or "ok"; keys are the options
\* the file sets, options their values; format is "" without a "format" key
NoConfig ==
    [state |-> "absent", model |-> "", keys |-> {},
     options |-> [o \in OptionNames |-> 0], format |-> ""]

BadConfig ==
    [state |-> "malformed", model |-> "", keys |-> {},
     options |-> [o \in OptionNames |-> 0], format |-> ""]

ConfigFile(m, k, o, f) ==
    [state |-> "ok", model |-> m, keys |-> k, options |-> o, format |-> f]

\* format.json: state is "absent", "malformed" or "ok"
NoFormat == [state |-> "absent", type |-> ""]

\* filepath.Join of two paths, each a sequence of names ("" is <<>>)
Join(base, folder) == base \o folder

\* a decoding that would start from the zero value, not from the defaults
UnmarshalOverZero(c) ==
    [model |-> c.model,
     system |-> <<>>,
     options |-> [o \in OptionNames |-> IF o \in c.keys THEN c.options[o] ELSE 0],
     format |-> c.format]

\* json.Unmarshal of a config.json body over the defaults
Unmarshal(c) ==
    [model |-> c.model,
     system |-> <<>>,
     options |-> [o \in OptionNames |->
                    IF o \in c.keys THEN c.options[o]
                    ELSE NewModelOptions[o]],
     format |-> c.format]

Exists(f, dir) == dir \in DOMAIN f

\* a read that would take a missing file for an empty one
ReadTextLenient(f, dir, name) ==
    IF Exists(f, dir) /\ f[dir][name].ok THEN f[dir][name] ELSE File(<<>>)

\* os.ReadFile of the three kinds of file; ok is FALSE when it returns an error
ReadText(f, dir, name) ==
    IF Exists(f, dir) THEN f[dir][name] ELSE NoFile

ReadConfig(f, dir) == IF Exists(f, dir) THEN f[dir].config ELSE NoConfig

ReadFormat(f, dir) == IF Exists(f, dir) THEN f[dir].format ELSE NoFormat

-----------------------------------------------------------------------------
(* package ollama *)

\* errors: op is the call that failed, cause what went wrong, code the HTTP
\* status of an "error response status code" error and 0 otherwise
NoError == [op |-> "", cause |-> "", code |-> 0]

Error(op, cause) == [op |-> op, cause |-> cause, code |-> 0]

\* an error for a status other than 200 that would leave the status out
StatusErrorNoCode(code) == [op |-> "post", cause |-> "status", code |-> 0]

StatusError(code) == [op |-> "post", cause |-> "status", code |-> code]

\* the Generate struct as NewGenerate fills it before it reads any file
NewStruct(folder, prompt, folderBase, timeout) ==
    [folder |-> folder, prompt |-> prompt, modelConfig |-> EmptyModelConfig,
     folderBase |-> folderBase, timeout |-> timeout]

\* WithTimeout: g.timeout = time.Duration(timeout) * time.Second
WithTimeout(timeout) == Seconds(Int64(timeout))

\* config() of generate.go: config.json alone
ConfigOld(f, dir) ==
    LET c == ReadConfig(f, dir)
    IN  IF c.state = "absent"
        THEN [config |-> EmptyModelConfig, err |-> Error("config", "read config.json"),
              reads |-> {"config.json"}]
        ELSE IF c.state = "malformed"
        THEN [config |-> EmptyModelConfig,
              err |-> Error("config", "unmarshal config.json"),
              reads |-> {"config.json"}]
        ELSE [config |-> Unmarshal(c), err |-> NoError, reads |-> {"config.json"}]

\* Generate.config() of the later version: config.json, system.txt and, when
\* g.ModelConfig (still the zero value here) names no format, format.json
ConfigNew(f, g) ==
    LET dir == Join(g.folderBase, g.folder)
        c == ReadConfig(f, dir)
        sys == ReadText(f, dir, "system")
        fmt == ReadFormat(f, dir)
        base == [Unmarshal(c) EXCEPT !.system = sys.text]
        useFormat == g.modelConfig.format = ""
    IN  IF c.state = "absent"
        THEN [config |-> EmptyModelConfig, err |-> Error("config", "read config.json"),
              reads |-> {"config.json"}]
        ELSE IF c.state = "malformed"
        THEN [config |-> EmptyModelConfig,
              err |-> Error("config", "unmarshal config.json"),
              reads |-> {"config.json"}]
        ELSE IF ~sys.ok
        THEN [config |-> EmptyModelConfig, err |-> Error("config", "read system.txt"),
              reads |-> {"config.json", "system.txt"}]
        ELSE IF ~useFormat
        THEN [config |-> base, err |-> NoError,
              reads |-> {"config.json", "system.txt"}]
        ELSE IF fmt.state = "absent"
        THEN [config |-> base, err |-> NoError,
              reads |-> {"config.json", "system.txt", "format.json"}]
        ELSE IF fmt.state = "malformed"
        THEN [config |-> EmptyModelConfig,
              err |-> Error("config", "unmarshal format.json"),
              reads |-> {"config.json", "system.txt", "format.json"}]
        ELSE [config |-> [base EXCEPT !.format = fmt.type], err |-> NoError,
              reads |-> {"config.json", "system.txt", "format.json"}]

\* NewGenerate of generate.go: the error of config() is dropped
NewGenerateOld(f, apiBase, g) ==
    LET c == ConfigOld(f, Join(g.folderBase, g.folder))
    IN  IF apiBase = ""
        THEN [g |-> g, err |-> Error("new", "API base URL is required"), reads |-> {}]
        ELSE [g |-> IF c.err = NoError THEN [g EXCEPT !.modelConfig = c.config] ELSE g,
              err |-> NoError, reads |-> c.reads]

\* NewGenerate of the later version: prompt.txt unless a prompt was given,
\* then the model config
NewGenerateNew(f, apiBase, g) ==
    LET dir == Join(g.folderBase, g.folder)
        p == ReadText(f, dir, "prompt")
        g1 == IF g.prompt = <<>> THEN [g EXCEPT !.prompt = p.text] ELSE g
        pr == IF g.prompt = <<>> THEN {"prompt.txt"} ELSE {}
        c == ConfigNew(f, g1)
    IN  IF apiBase = ""
        THEN [g |-> g, err |-> Error("new", "API base URL is required"), reads |-> {}]
        ELSE IF g.prompt = <<>> /\ ~p.ok
        THEN [g |-> g, err |-> Error("new", "read prompt.txt"), reads |-> pr]
        ELSE IF c.err # NoError
        THEN [g |-> g1, err |-> c.err, reads |-> pr \cup c.reads]
        ELSE [g |-> [g1 EXCEPT !.modelConfig = c.config], err |-> NoError,
              reads |-> pr \cup c.reads]

NewGenerate(b, f, apiBase, g) ==
    IF b = "old" THEN NewGenerateOld(f, apiBase, g) ELSE NewGenerateNew(f, apiBase, g)

\* a request that would ask for a streamed answer
RequestStreaming(model, options, prompt, system, format) ==
    [model |-> model, options |-> options, prompt |-> prompt, stream |-> TRUE,
     system |-> system, format |-> format, raw |-> FALSE]

\* the request struct
Request(model, options, prompt, system, format) ==
    [model |-> model, options |-> options, prompt |-> prompt, stream |-> FALSE,
     system |-> system, format |-> format, raw |-> FALSE]

\* requestFromFolder of generate.go: system.txt, then prompt.txt unless
\* g.prompt is set
RequestFromFolder(f, g) ==
    LET dir == Join(g.folderBase, g.folder)
        sys == ReadText(f, dir, "system")
        p == ReadText(f, dir, "prompt")
        text == IF g.prompt = <<>> THEN p.text ELSE g.prompt
        mc == g.modelConfig
    IN  IF ~sys.ok
        THEN [req |-> Request("", EmptyModelConfig.options, <<>>, <<>>, ""),
              err |-> Error("post", "read system.txt"), reads |-> {"system.txt"}]
        ELSE IF g.prompt = <<>> /\ ~p.ok
        THEN [req |-> Request("", EmptyModelConfig.options, <<>>, <<>>, ""),
              err |-> Error("post", "read prompt.txt"),
              reads |-> {"system.txt", "prompt.txt"}]
        ELSE [req |-> Request(mc.model, mc.options, text, sys.text, mc.format),
              err |-> NoError,
              reads |-> IF g.prompt = <<>> THEN {"system.txt", "prompt.txt"}
                        ELSE {"system.txt"}]

\* the request Post builds: from the folder in generate.go, from the struct
\* in the later version
BuildRequest(b, f, g) ==
    IF b = "old" THEN RequestFromFolder(f, g)
    ELSE [req |-> Request(g.modelConfig.model, g.modelConfig.options, g.prompt,
                          g.modelConfig.system, g.modelConfig.format),
          err |-> NoError, reads |-> {}]

\* context.WithTimeout(ctx, time.Duration(g.timeout)*time.Second): the
\* duration until the deadline
DeadlineAfter(g) == Seconds(g.timeout)

\* the deadline d of a request has passed e seconds after it was set
TimerDue(d, e) == IsNeg64(d) \/ Leq64(d, Seconds(Nat64(e)))

-----------------------------------------------------------------------------
(* The inputs of a run *)

\* folder names, in the order filepath.Walk visits them
NameOrder == <<"a", "b", "c", "d", "e", "n", "p", "prompts", "s", "t">>

Rank(name) == CHOOSE i \in 1..Len(NameOrder) : NameOrder[i] = name

\* the text given with -p, when one is given
Override == <<"o", "v">>

\* settings.json as the readme shows it
FolderBasePath == <<"prompts">>

ApiBase == "http://localhost:11434/api"

\* the values of "timeout" in settings.json that are tried
TimeoutValues == {-1, 0, 10, 300}

\* "timeout" as the readme shows it
DocumentedTimeout == 300

\* the bodies the endpoint may answer with status 200: the response of a
\* reasoning model, its reasoning in think tags before the answer
Outputs == { OpenTag \o <<"r">> \o CloseTag \o <<"y", "o">> }

\* the body the endpoint sends along with a status other than 200
ErrorBody == <<"n", "o">>

\* http.StatusOK
StatusOK == 200

\* the statuses other than 200 the endpoint may answer
Statuses == {404, 500}

\* the config.json of a well-formed folder
GoodConfig ==
    ConfigFile("llama3.2", {"temperature"},
               [o \in OptionNames |-> IF o = "temperature" THEN 5 ELSE 0], "")

\* a folder: every file it may hold, and the logs written into it
Folder(prompt, config, system) ==
    [prompt |-> prompt, config |-> config, system |-> system,
     format |-> NoFormat, logs |-> {}]

\* the prompt.txt a folder holds before the run, when it holds one
OwnPrompt(folder) == <<"q">> \o folder

\* the ways a folder can be broken: at most one of these per run
Defects == {"none", "no config", "bad config", "no system"}

FolderWith(folder, hasPrompt, defect) ==
    Folder(IF hasPrompt THEN File(OwnPrompt(folder)) ELSE NoFile,
           CASE defect = "no config" -> NoConfig
             [] defect = "bad config" -> BadConfig
             [] OTHER -> GoodConfig,
           IF defect = "no system" THEN NoFile ELSE File(<<"s", "y">>))

\* the folders a list names
Range(l) == {l[i] : i \in 1..Len(l)}

\* the folder lists of -f: a, b, c, ... up to MaxSteps folders, and the
\* lists that name a folder twice
Chain(n) == [i \in 1..n |-> <<NameOrder[i]>>]

ChainLists ==
    {Chain(n) : n \in 1..MaxSteps}
    \cup {<< <<"a">>, <<"a">> >>, << <<"a">>, <<"b">>, <<"a">> >>}

\* the folders of a list as they lie under folder_base_path
Dirs(base, l) == {Join(base, x) : x \in Range(l)}

\* which folders of a list hold a prompt.txt before the run: the first one
\* or not, the later ones or not
PromptChoices(l) ==
    LET first == {Join(FolderBasePath, l[1])}
        later == Dirs(FolderBasePath, l) \ first
    IN  {{}, first, later, first \cup later}

\* a run without -r: main has checked that every folder of the list exists
\* under folder_base_path
ChainedInput(l, p, t, has, badDir, defect) ==
    [folders |-> l, prompt |-> p, recurse |-> FALSE, base |-> FolderBasePath,
     timeout |-> t,
     fs |-> [d \in Dirs(FolderBasePath, l) |->
               FolderWith(SubSeq(d, Len(FolderBasePath) + 1, Len(d)), d \in has,
                          IF d = badDir THEN defect ELSE "none")]]

\* the runs without -r that are tried: well-formed folders that may lack
\* prompt.txt, with and without -p; one broken folder in a chain; the
\* other values of "timeout"
ChainedInputs ==
    UNION { { ChainedInput(l, p, DocumentedTimeout, has, <<>>, "none") :
                p \in {<<>>, Override}, has \in PromptChoices(l) } :
            l \in ChainLists }
    \cup UNION { { ChainedInput(Chain(n), <<>>, DocumentedTimeout,
                                Dirs(FolderBasePath, Chain(n)), bad, k) :
                     bad \in Dirs(FolderBasePath, Chain(n)),
                     k \in Defects \ {"none"} } :
                 n \in 1..MaxSteps }
    \cup UNION { { ChainedInput(Chain(n), <<>>, t, Dirs(FolderBasePath, Chain(n)),
                                <<>>, "none") :
                     t \in TimeoutValues } :
                 n \in 1..MaxSteps }

\* p is a proper prefix of q
IsUnder(q, p) == Len(q) > Len(p) /\ SubSeq(q, 1, Len(p)) = p

\* p comes before q in lexical order, a folder before what it holds
RECURSIVE Before(_, _)
Before(p, q) ==
    IF p = <<>> THEN q # <<>>
    ELSE IF q = <<>> THEN FALSE
    ELSE IF Rank(Head(p)) # Rank(Head(q)) THEN Rank(Head(p)) < Rank(Head(q))
    ELSE Before(Tail(p), Tail(q))

\* the elements of a set of paths in lexical order
RECURSIVE Sorted(_)
Sorted(S) ==
    IF S = {} THEN <<>>
    ELSE LET first == CHOOSE x \in S : \A y \in S \ {x} : Before(x, y)
         IN  <<first>> \o Sorted(S \ {first})

\* the subfolders main collects with filepath.Walk: every directory below
\* parentFolder, at any depth, in lexical order
Walk(f, parentFolder) == Sorted({d \in DOMAIN f : IsUnder(d, parentFolder)})

\* the parent folder of the runs with -r and the directories it may hold
ParentFolder == <<"p">>

SubFolders == {<<"s">>, <<"s", "n">>, <<"t">>}

\* the runs with -r that are tried: folder_base_path empty or as documented,
\* the parent holds any tree of the directories above, every one of them
\* well-formed but for prompt.txt, which any may lack
RecurseInputs ==
    { [folders |-> <<ParentFolder>>, prompt |-> p, recurse |-> TRUE, base |-> b,
       timeout |-> DocumentedTimeout,
       fs |-> [d \in {Join(b, ParentFolder)}
                       \cup {Join(Join(b, ParentFolder), x) : x \in tree} |->
                 FolderWith(SubSeq(d, Len(b) + 1, Len(d)), d \in has, "none")]] :
        b \in {<<>>, FolderBasePath},
        p \in {<<>>, Override},
        tree \in {T \in SUBSET SubFolders :
                    \A x \in T : Len(x) > 1 => SubSeq(x, 1, Len(x) - 1) \in T},
        has \in SUBSET ({Join(Join(c, ParentFolder), x) :
                            c \in {<<>>, FolderBasePath}, x \in SubFolders}) }

\* the values an option is given in config.json: an explicit 0, and another
ConfigValues == {0, 7}

\* the runs of one well-formed folder whose config.json sets any subset of
\* the options, each to the same value
ConfigInputs ==
    { [folders |-> Chain(1), prompt |-> <<>>, recurse |-> FALSE,
       base |-> FolderBasePath, timeout |-> DocumentedTimeout,
       fs |-> [d \in Dirs(FolderBasePath, Chain(1)) |->
                 Folder(File(OwnPrompt(Chain(1)[1])),
                        ConfigFile("llama3.2", k, [o \in OptionNames |-> v], ""),
                        File(<<"s", "y">>))]] :
        k \in SUBSET OptionNames, v \in ConfigValues }

\* format.json holding a schema of the given type
FormatFile(t) == [state |-> "ok", type |-> t]

BadFormat == [state |-> "malformed", type |-> ""]

\* the runs of one well-formed folder whose config.json names an output
\* format or none, and that holds no format.json, a broken one, or one with
\* a schema of another type
FormatInputs ==
    { [folders |-> Chain(1), prompt |-> <<>>, recurse |-> FALSE,
       base |-> FolderBasePath, timeout |-> DocumentedTimeout,
       fs |-> [d \in Dirs(FolderBasePath, Chain(1)) |->
                 [Folder(File(OwnPrompt(Chain(1)[1])),
                         ConfigFile("llama3.2", {}, [o \in OptionNames |-> 0], c),
                         File(<<"s", "y">>))
                    EXCEPT !.format = f]]] :
        c \in {"", "object"}, f \in {NoFormat, BadFormat, FormatFile("array")} }

\* the log an earlier run has left in a folder, written in the second in
\* which this run begins
EarlierLog ==
    [name |-> 0, step |-> -1, prompt |-> <<"q">>, response |-> <<"o", "l", "d">>]

\* the runs of one well-formed folder that an earlier run has just been
\* through
EarlierRunInputs ==
    { [folders |-> Chain(1), prompt |-> <<>>, recurse |-> FALSE,
       base |-> FolderBasePath, timeout |-> DocumentedTimeout,
       fs |-> [d \in Dirs(FolderBasePath, Chain(1)) |->
                 [FolderWith(Chain(1)[1], TRUE, "none")
                    EXCEPT !.logs = {EarlierLog}]]] }

Inputs ==
    ChainedInputs \cup RecurseInputs \cup ConfigInputs \cup FormatInputs
    \cup EarlierRunInputs

\* the folders run is given: those of -f, or with -r what Walk found
RunFolders(in) ==
    IF in.recurse THEN Walk(in.fs, Join(in.base, in.folders[1])) ELSE in.folders

-----------------------------------------------------------------------------
(* run *)

\* the call of client.Do: its deadline, when it began, and the status and
\* body the endpoint answered with (status 0: no answer)
NoCall ==
    [active |-> FALSE, deadline |-> Zero64, start |-> 0, status |-> 0,
     body |-> <<>>]

NoResponse == [ok |-> FALSE, output |-> <<>>, err |-> NoError]

NotReturned == [done |-> FALSE, where |-> "", err |-> NoError]

Nil == [done |-> TRUE, where |-> "", err |-> NoError]

Failed(where, err) == [done |-> TRUE, where |-> where, err |-> err]

\* the state when run has started its two goroutines and enters the loop
Init ==
    \E in \in Inputs, b \in {"old", "new"} :
        /\ build = b
        /\ args = [folders |-> RunFolders(in), prompt |-> in.prompt,
                   recurse |-> in.recurse]
        /\ settings = [APIBase |-> ApiBase, FolderBase |-> in.base,
                       Timeout |-> in.timeout]
        /\ fs = in.fs
        /\ disk0 = in.fs
        /\ now = 0
        /\ pc = "loop"
        /\ index = 0
        /\ gen = NewStruct(<<>>, <<>>, <<>>, Zero64)
        /\ call = NoCall
        /\ resp = NoResponse
        /\ result = NotReturned
        /\ ctxDone = FALSE
        /\ sigChan = [buf |-> 0, closed |-> FALSE, registered |-> TRUE]
        /\ handler = [pc |-> "recv", signalled |-> FALSE]
        /\ spinner = "idle"
        /\ spinOpen = TRUE
        /\ proc = "running"
        /\ requests = <<>>
        /\ io = {}
        /\ outputs = <<>>
        /\ calc = NoCalc

Running == proc = "running"

\* elapsed seconds since the outstanding call was started
Elapsed == now - call.start

\* the context of the outstanding request is done
RequestCtxDone == ctxDone \/ TimerDue(call.deadline, Elapsed)

\* a context error that would not tell the deadline from the cancellation
CtxCausesAlike(parentDone, due) ==
    IF parentDone \/ due THEN {"context canceled"} ELSE {}

\* ctx.Err() of a request context: the parent's cancellation, or the deadline
CtxCauses(parentDone, due) ==
    (IF parentDone THEN {"context canceled"} ELSE {})
    \cup (IF due THEN {"context deadline exceeded"} ELSE {})

\* the reads of one step, as entries of the history
Reads(step, dir, files) == {<<step, dir, f, "read">> : f \in files}

\* a return statement that would leave the two channels open
ReturnLeavesOpen(r) ==
    /\ result' = r
    /\ pc' = "returned"
    /\ UNCHANGED <<spinOpen, sigChan>>

\* a return statement of run, with the two deferred close calls
Return(r) ==
    /\ result' = r
    /\ pc' = "returned"
    /\ spinOpen' = FALSE
    /\ sigChan' = [sigChan EXCEPT !.closed = TRUE]

\* a loop that would pass the prompt of -p for every folder
PromptForEveryStep(i) == args.prompt

\* a loop that would pass the prompt of -p for the first folder alone, with
\* -r as without
PromptForFirstOnly(i) == IF i = 0 THEN args.prompt ELSE <<>>

\* the prompt run passes to WithPrompt for the folder at index i
PromptFor(i) ==
    IF args.prompt # <<>> /\ (args.recurse \/ i = 0) THEN args.prompt ELSE <<>>

\* the folderBase of an iteration: "" with -r and -p, since the subfolders
\* are then taken to hold the base already
FolderBaseFor ==
    IF args.recurse /\ args.prompt # <<>> THEN <<>> ELSE settings.FolderBase

\* what NewGenerate returns for the folder at index
Created ==
    NewGenerate(build, fs, settings.APIBase,
                NewStruct(args.folders[index + 1], PromptFor(index), FolderBaseFor,
                          WithTimeout(settings.Timeout)))

\* the loop is over: return nil
LoopEnd ==
    /\ Running /\ pc = "loop"
    /\ index >= Len(args.folders)
    /\ Return(Nil)
    /\ UNCHANGED <<calc, build, args, settings, disk0, fs, now, index, gen, call, resp,
                   ctxDone, handler, spinner, proc, requests, io, outputs>>

\* top of the loop body: NewGenerate succeeds
Create ==
    /\ Running /\ pc = "loop"
    /\ index < Len(args.folders)
    /\ Created.err = NoError
    /\ gen' = Created.g
    /\ io' = io \cup Reads(index, Join(FolderBaseFor, args.folders[index + 1]),
                           Created.reads)
    /\ pc' = "spin_start"
    /\ UNCHANGED <<calc, build, args, settings, disk0, fs, now, index, call, resp, result,
                   ctxDone, sigChan, handler, spinner, spinOpen, proc, requests,
                   outputs>>

\* a loop that would go on to the next folder when NewGenerate fails
CreateFailContinues ==
    /\ Running /\ pc = "loop"
    /\ index < Len(args.folders)
    /\ Created.err # NoError
    /\ io' = io \cup Reads(index, Join(FolderBaseFor, args.folders[index + 1]),
                           Created.reads)
    /\ index' = index + 1
    /\ UNCHANGED <<calc, build, args, settings, disk0, fs, now, pc, gen, call, resp,
                   result, ctxDone, sigChan, handler, spinner, spinOpen, proc,
                   requests, outputs>>

\* top of the loop body: NewGenerate fails and run returns its error
CreateFail ==
    /\ Running /\ pc = "loop"
    /\ index < Len(args.folders)
    /\ Created.err # NoError
    /\ io' = io \cup Reads(index, Join(FolderBaseFor, args.folders[index + 1]),
                           Created.reads)
    /\ Return(Failed("error creating generate instance", Created.err))
    /\ UNCHANGED <<calc, build, args, settings, disk0, fs, now, index, gen, call, resp,
                   ctxDone, handler, spinner, proc, requests, outputs>>

\* select before Post: case <-ctx.Done()
StartCancelled ==
    /\ Running /\ pc = "spin_start"
    /\ ctxDone
    /\ Return(Nil)
    /\ UNCHANGED <<calc, build, args, settings, disk0, fs, now, index, gen, call, resp,
                   ctxDone, handler, spinner, proc, requests, io, outputs>>

\* select before Post: case spin <- true, taken by the spinner
StartSpinner ==
    /\ Running /\ pc = "spin_start"
    /\ spinner # "exited"
    /\ spinner' = "spinning"
    /\ pc' = "post"
    /\ UNCHANGED <<calc, build, args, settings, disk0, fs, now, index, gen, call, resp, result,
                   ctxDone, sigChan, handler, spinOpen, proc, requests, io,
                   outputs>>

\* what Post builds before it calls client.Do
Built == BuildRequest(build, fs, gen)

\* Post fails before it has a request: a file of the folder cannot be read
PostNoRequest ==
    /\ Running /\ pc = "post"
    /\ Built.err # NoError
    /\ io' = io \cup Reads(index, Join(gen.folderBase, gen.folder), Built.reads)
    /\ resp' = [ok |-> FALSE, output |-> <<>>, err |-> Built.err]
    /\ Return(Failed("error generating response", Built.err))
    /\ UNCHANGED <<calc, build, args, settings, disk0, fs, now, index, gen, call, ctxDone,
                   handler, spinner, proc, requests, outputs>>

\* client.Do finds the request context done before anything is sent
PostCtxDone ==
    /\ Running /\ pc = "post"
    /\ Built.err = NoError
    /\ ctxDone \/ TimerDue(DeadlineAfter(gen), 0)
    /\ \E cause \in CtxCauses(ctxDone, ~ctxDone) :
         /\ resp' = [ok |-> FALSE, output |-> <<>>, err |-> Error("post", cause)]
         /\ Return(Failed("error generating response", Error("post", cause)))
    /\ io' = io \cup Reads(index, Join(gen.folderBase, gen.folder), Built.reads)
    /\ call' = [NoCall EXCEPT !.deadline = DeadlineAfter(gen), !.start = now]
    /\ UNCHANGED <<calc, build, args, settings, disk0, fs, now, index, gen, ctxDone, handler,
                   spinner, proc, requests, outputs>>

\* client.Do sends the POST to apiBase + "/generate"
PostSend ==
    /\ Running /\ pc = "post"
    /\ Built.err = NoError
    /\ ~ctxDone /\ ~TimerDue(DeadlineAfter(gen), 0)
    /\ requests' = Append(requests, [step |-> index, req |-> Built.req])
    /\ io' = io \cup Reads(index, Join(gen.folderBase, gen.folder), Built.reads)
    /\ call' = [NoCall EXCEPT !.active = TRUE, !.deadline = DeadlineAfter(gen),
                              !.start = now]
    /\ pc' = "inflight"
    /\ UNCHANGED <<calc, build, args, settings, disk0, fs, now, index, gen, resp, result,
                   ctxDone, sigChan, handler, spinner, spinOpen, proc, outputs>>

\* a Post that would try again after a failed attempt
PostRetries(err, status, body) ==
    /\ resp' = [ok |-> FALSE, output |-> <<>>, err |-> err]
    /\ call' = [call EXCEPT !.active = FALSE, !.status = status, !.body = body]
    /\ pc' = "post"
    /\ UNCHANGED <<calc, build, args, settings, disk0, fs, now, index, gen, result,
                   ctxDone, sigChan, handler, spinner, spinOpen, proc, requests,
                   io, outputs>>

\* a Post that would have emptied prompt.txt of the next folder before the
\* request was answered
PostFailsClearsNext(err, status, body) ==
    /\ resp' = [ok |-> FALSE, output |-> <<>>, err |-> err]
    /\ call' = [call EXCEPT !.active = FALSE, !.status = status, !.body = body]
    /\ Return(Failed("error generating response", err))
    /\ fs' = IF index < Len(args.folders) - 1 /\ ~args.recurse
             THEN [fs EXCEPT ![Join(gen.folderBase, args.folders[index + 2])].prompt
                                 = File(<<>>)]
             ELSE fs
    /\ UNCHANGED <<calc, build, args, settings, disk0, now, index, gen, ctxDone,
                   handler, spinner, proc, requests, io, outputs>>

\* Post returns the empty Response and an error, and run returns the error;
\* status and body are what the endpoint answered, if it did
PostFails(err, status, body) ==
    /\ resp' = [ok |-> FALSE, output |-> <<>>, err |-> err]
    /\ call' = [call EXCEPT !.active = FALSE, !.status = status, !.body = body]
    /\ Return(Failed("error generating response", err))
    /\ UNCHANGED <<calc, build, args, settings, disk0, fs, now, index, gen, ctxDone,
                   handler, spinner, proc, requests, io, outputs>>

\* the endpoint answers 200 with a well-formed body, which Post decodes
Reply200 ==
    /\ Running /\ pc = "inflight"
    /\ ~RequestCtxDone
    /\ \E out \in Outputs :
         /\ resp' = [ok |-> TRUE, output |-> out, err |-> NoError]
         /\ outputs' = Append(outputs, out)
         /\ call' = [call EXCEPT !.active = FALSE, !.status = StatusOK,
                                 !.body = out]
    /\ pc' = "spin_stop"
    /\ UNCHANGED <<calc, build, args, settings, disk0, fs, now, index, gen, result,
                   ctxDone, sigChan, handler, spinner, spinOpen, proc, requests,
                   io>>

\* the endpoint answers with a status other than 200: the body is left alone
ReplyStatus ==
    /\ Running /\ pc = "inflight"
    /\ ~RequestCtxDone
    /\ \E code \in Statuses : PostFails(StatusError(code), code, ErrorBody)

\* the endpoint answers 200 with a body that is not the JSON of a Response
ReplyMalformed ==
    /\ Running /\ pc = "inflight"
    /\ ~RequestCtxDone
    /\ PostFails(Error("post", "unmarshal response body"), StatusOK, <<"{">>)

\* client.Do fails in the transport
TransportError ==
    /\ Running /\ pc = "inflight"
    /\ ~RequestCtxDone
    /\ PostFails(Error("post", "send POST request"), 0, <<>>)

\* a call that would give up at its deadline only, blind to the context of run
PostAbortedAtDeadline ==
    /\ Running /\ pc = "inflight"
    /\ TimerDue(call.deadline, Elapsed)
    /\ PostFails(Error("post", "context deadline exceeded"), 0, <<>>)

\* the request context ends while the call is outstanding
PostAborted ==
    /\ Running /\ pc = "inflight"
    /\ RequestCtxDone
    /\ \E cause \in CtxCauses(ctxDone, TimerDue(call.deadline, Elapsed)) :
         PostFails(Error("post", cause), 0, <<>>)

\* a second passes while the call is outstanding and its context is live
Tick ==
    /\ Running /\ pc = "inflight"
    /\ ~RequestCtxDone
    /\ now < MaxClock
    /\ now' = now + 1
    /\ UNCHANGED <<calc, build, args, settings, disk0, fs, pc, index, gen, call, resp, result,
                   ctxDone, sigChan, handler, spinner, spinOpen, proc, requests,
                   io, outputs>>

\* select after Post: case <-ctx.Done()
StopCancelled ==
    /\ Running /\ pc = "spin_stop"
    /\ ctxDone
    /\ Return(Nil)
    /\ UNCHANGED <<calc, build, args, settings, disk0, fs, now, index, gen, call, resp,
                   ctxDone, handler, spinner, proc, requests, io, outputs>>

\* a spinner that would return when it is told to stop
StopSpinnerExits ==
    /\ Running /\ pc = "spin_stop"
    /\ spinner # "exited"
    /\ spinner' = "exited"
    /\ pc' = "forward"
    /\ UNCHANGED <<calc, build, args, settings, disk0, fs, now, index, gen, call, resp, result,
                   ctxDone, sigChan, handler, spinOpen, proc, requests, io,
                   outputs>>

\* select after Post: case spin <- false, taken by the spinner
StopSpinner ==
    /\ Running /\ pc = "spin_stop"
    /\ spinner # "exited"
    /\ spinner' = "idle"
    /\ pc' = "forward"
    /\ UNCHANGED <<calc, build, args, settings, disk0, fs, now, index, gen, call, resp, result,
                   ctxDone, sigChan, handler, spinOpen, proc, requests, io,
                   outputs>>

\* a forwarding that would write into the folder of the current step
CurrentPromptDir == Join(gen.folderBase, args.folders[index + 1])

\* the folder the output of the current step is forwarded to
NextPromptDir == Join(gen.folderBase, args.folders[index + 2])

\* a forwarding that would not look at -r
ForwardsWithRecurse == index < Len(args.folders) - 1

\* there is a next folder and the run is not recursing
Forwards == index < Len(args.folders) - 1 /\ ~args.recurse

\* a forwarding that would go on to the next folder at once
ForwardThenNext ==
    /\ Running /\ pc = "forward"
    /\ Forwards
    /\ Exists(fs, NextPromptDir)
    /\ fs' = [fs EXCEPT ![NextPromptDir].prompt = File(CleanedOutput(resp.output))]
    /\ io' = io \cup {<<index, NextPromptDir, "prompt.txt", "write">>}
    /\ index' = index + 1
    /\ pc' = "loop"
    /\ UNCHANGED <<calc, build, args, settings, disk0, now, gen, call, resp, result,
                   ctxDone, sigChan, handler, spinner, spinOpen, proc, requests,
                   outputs>>

\* a forwarding that would write the output as it was received
ForwardRaw ==
    /\ Running /\ pc = "forward"
    /\ Forwards
    /\ Exists(fs, NextPromptDir)
    /\ fs' = [fs EXCEPT ![NextPromptDir].prompt = File(resp.output)]
    /\ io' = io \cup {<<index, NextPromptDir, "prompt.txt", "write">>}
    /\ pc' = "log"
    /\ UNCHANGED <<calc, build, args, settings, disk0, now, index, gen, call, resp, result,
                   ctxDone, sigChan, handler, spinner, spinOpen, proc, requests,
                   outputs>>

\* os.WriteFile(nextPromptFilePath, cleanedOutput): the file is replaced
Forward ==
    /\ Running /\ pc = "forward"
    /\ Forwards
    /\ Exists(fs, NextPromptDir)
    /\ fs' = [fs EXCEPT ![NextPromptDir].prompt = File(CleanedOutput(resp.output))]
    /\ io' = io \cup {<<index, NextPromptDir, "prompt.txt", "write">>}
    /\ pc' = "log"
    /\ UNCHANGED <<calc, build, args, settings, disk0, now, index, gen, call, resp, result,
                   ctxDone, sigChan, handler, spinner, spinOpen, proc, requests,
                   outputs>>

\* what a write of text t that fails may leave in a file it had opened: the
\* file was truncated, and any part of t but all of it may have been written
Partial(t) == {File(SubSeq(t, 1, n)) : n \in 0..(Len(t) - 1)}

\* os.WriteFile(nextPromptFilePath, ...) returns an error: the file could not
\* be opened and is as it was, or it was opened and the write failed
ForwardFail ==
    /\ Running /\ pc = "forward"
    /\ Forwards
    /\ \/ fs' = fs
       \/ /\ Exists(fs, NextPromptDir)
          /\ \E left \in Partial(CleanedOutput(resp.output)) :
               fs' = [fs EXCEPT ![NextPromptDir].prompt = left]
    /\ io' = io \cup {<<index, NextPromptDir, "prompt.txt", "write">>}
    /\ Return(Failed("error writing prompt.txt", Error("write", "prompt.txt")))
    /\ UNCHANGED <<calc, build, args, settings, disk0, now, index, gen, call, resp,
                   ctxDone, handler, spinner, proc, requests, outputs>>

\* a loop that would go on to the next folder without the log when nothing
\* is forwarded
NoForwardNoLog ==
    /\ Running /\ pc = "forward"
    /\ ~Forwards
    /\ index' = index + 1
    /\ pc' = "loop"
    /\ UNCHANGED <<calc, build, args, settings, disk0, fs, now, gen, call, resp, result,
                   ctxDone, sigChan, handler, spinner, spinOpen, proc, requests,
                   io, outputs>>

\* last folder, or -r: nothing is forwarded
NoForward ==
    /\ Running /\ pc = "forward"
    /\ ~Forwards
    /\ pc' = "log"
    /\ UNCHANGED <<calc, build, args, settings, disk0, fs, now, index, gen, call, resp, result,
                   ctxDone, sigChan, handler, spinner, spinOpen, proc, requests,
                   io, outputs>>

\* the folder of the current step, as run joins it for the log
LogDir == Join(gen.folderBase, args.folders[index + 1])

\* gen.Prompt(): the prompt the step has used, which is the one its request
\* carried
Prompt == requests[Len(requests)].req.prompt

\* a log that would hold the response without its reasoning blocks
LogFileCleaned ==
    [name |-> now, step |-> index, prompt |-> Prompt,
     response |-> CleanedOutput(resp.output)]

\* output_<time.Now()>.log: the name has the second, the body the prompt of
\* the step and the response as received
LogFile == [name |-> now, step |-> index, prompt |-> Prompt,
            response |-> resp.output]

\* os.WriteFile(outputLogPath, outputLog): a file of that name is replaced
WriteLog ==
    /\ Running /\ pc = "log"
    /\ Exists(fs, LogDir)
    /\ fs' = [fs EXCEPT ![LogDir].logs =
                 {l \in @ : l.name # LogFile.name} \cup {LogFile}]
    /\ io' = io \cup {<<index, LogDir, "output.log", "write">>}
    /\ index' = index + 1
    /\ pc' = "loop"
    /\ UNCHANGED <<calc, build, args, settings, disk0, now, gen, call, resp, result, ctxDone,
                   sigChan, handler, spinner, spinOpen, proc, requests, outputs>>

\* os.WriteFile(outputLogPath, ...) returns an error
WriteLogFail ==
    /\ Running /\ pc = "log"
    /\ io' = io \cup {<<index, LogDir, "output.log", "write">>}
    /\ Return(Failed("error writing output.log", Error("write", "output.log")))
    /\ UNCHANGED <<calc, build, args, settings, disk0, fs, now, index, gen, call, resp,
                   ctxDone, handler, spinner, proc, requests, outputs>>

\* the process ends: its goroutines, channels and contexts are gone, the
\* disk and what run had returned stay
Halt(how) ==
    /\ proc' = how
    /\ pc' = "halted"
    /\ gen' = NewStruct(<<>>, <<>>, <<>>, Zero64)
    /\ call' = NoCall
    /\ resp' = NoResponse
    /\ ctxDone' = FALSE
    /\ sigChan' = [buf |-> 0, closed |-> TRUE, registered |-> FALSE]
    /\ handler' = [pc |-> "halted", signalled |-> FALSE]
    /\ spinner' = "exited"
    /\ spinOpen' = FALSE
    /\ UNCHANGED <<calc, build, args, settings, disk0, fs, now, index, result, requests, io,
                   outputs>>

\* main returns after run has: the process ends
Exit ==
    /\ Running /\ pc = "returned"
    /\ Halt("exited")

-----------------------------------------------------------------------------
(* The signal handling goroutine, the spinner and the signals *)

\* a goroutine that would cancel without signal.Stop(sigChan)
HandlerKeepsListening ==
    /\ Running /\ handler.pc = "recv"
    /\ sigChan.buf > 0 \/ sigChan.closed
    /\ handler' = [pc |-> "done", signalled |-> sigChan.buf > 0]
    /\ sigChan' = [sigChan EXCEPT !.buf = 0]
    /\ ctxDone' = TRUE
    /\ UNCHANGED <<calc, build, args, settings, disk0, fs, now, pc, index, gen, call, resp,
                   result, spinner, spinOpen, proc, requests, io, outputs>>

\* the goroutine: <-sigChan returns because a signal was buffered or the
\* channel is closed, then signal.Stop(sigChan), the message, cancel()
Handler ==
    /\ Running /\ handler.pc = "recv"
    /\ sigChan.buf > 0 \/ sigChan.closed
    /\ handler' = [pc |-> "done", signalled |-> sigChan.buf > 0]
    /\ sigChan' = [sigChan EXCEPT !.buf = 0, !.registered = FALSE]
    /\ ctxDone' = TRUE
    /\ UNCHANGED <<calc, build, args, settings, disk0, fs, now, pc, index, gen, call, resp,
                   result, spinner, spinOpen, proc, requests, io, outputs>>

\* SIGINT or SIGTERM while sigChan is registered and open: buffered
Signal ==
    /\ Running
    /\ sigChan.registered /\ ~sigChan.closed
    /\ sigChan.buf = 0
    /\ sigChan' = [sigChan EXCEPT !.buf = 1]
    /\ UNCHANGED <<calc, build, args, settings, disk0, fs, now, pc, index, gen, call, resp,
                   result, ctxDone, handler, spinner, spinOpen, proc, requests,
                   io, outputs>>

\* a signal while sigChan is registered but closed: send on closed channel
SignalOnClosed ==
    /\ Running
    /\ sigChan.registered /\ sigChan.closed
    /\ Halt("panicked")

\* a signal after signal.Stop: the default action ends the process
SignalDefault ==
    /\ Running
    /\ ~sigChan.registered
    /\ Halt("killed")

\* spinner: case <-ctx.Done()
SpinnerDone ==
    /\ Running /\ spinner # "exited"
    /\ ctxDone
    /\ spinner' = "exited"
    /\ UNCHANGED <<calc, build, args, settings, disk0, fs, now, pc, index, gen, call, resp,
                   result, ctxDone, sigChan, handler, spinOpen, proc, requests,
                   io, outputs>>

\* spinner: the spin channel is closed
SpinnerClosed ==
    /\ Running /\ spinner # "exited"
    /\ ~spinOpen
    /\ spinner' = "exited"
    /\ UNCHANGED <<calc, build, args, settings, disk0, fs, now, pc, index, gen, call, resp,
                   result, ctxDone, sigChan, handler, spinOpen, proc, requests,
                   io, outputs>>

-----------------------------------------------------------------------------
(* Specifications *)

MainStep ==
    \/ LoopEnd \/ Create \/ CreateFail
    \/ StartCancelled \/ StartSpinner
    \/ PostNoRequest \/ PostCtxDone \/ PostSend \/ PostAborted
    \/ StopCancelled \/ StopSpinner
    \/ Forward \/ ForwardFail \/ NoForward
    \/ WriteLog \/ WriteLogFail
    \/ Exit

Next ==
    \/ LoopEnd \/ Create \/ CreateFail
    \/ StartCancelled \/ StartSpinner
    \/ PostNoRequest \/ PostCtxDone \/ PostSend
    \/ Reply200 \/ ReplyStatus \/ ReplyMalformed \/ TransportError
    \/ PostAborted \/ Tick
    \/ StopCancelled \/ StopSpinner
    \/ Forward \/ ForwardFail \/ NoForward
    \/ WriteLog \/ WriteLogFail
    \/ Exit
    \/ Handler
    \/ Signal \/ SignalOnClosed \/ SignalDefault
    \/ SpinnerDone \/ SpinnerClosed

Spec == Init /\ [][Next]_vars

\* the runtime delivers the end of a context to the call that waits on it:
\* client.Do returns once the request context is done
FairSpec == Spec /\ WF_vars(PostAborted)

\* the scheduler runs a goroutine whose receive or select has a case that is
\* ready: the main goroutine leaves each of its two select statements once
\* the spinner receives or the context is done, the signal goroutine goes on
\* once its channel holds a signal or is closed, and the spinner returns
\* once the context is done or its channel is closed
SchedulerSpec ==
    /\ Spec
    /\ WF_vars(StartCancelled \/ StartSpinner)
    /\ WF_vars(StopCancelled \/ StopSpinner)
    /\ WF_vars(Handler)
    /\ WF_vars(SpinnerDone \/ SpinnerClosed)

-----------------------------------------------------------------------------
(* The computations of run on a response, taken alone *)

MaxPieces == 6

\* text without a marker, holding a line break
Plain == <<"a", "\n">>

\* the two halves of an open marker
OpenHead == <<"<", "t">>

OpenTail == <<"h", "i", "n", "k", ">">>

\* what the output texts are put together from
Pieces == {OpenTag, CloseTag, Plain, OpenHead, OpenTail}

RECURSIVE Flatten(_)
Flatten(p) == IF p = <<>> THEN <<>> ELSE Head(p) \o Flatten(Tail(p))

\* Response.Output: up to MaxPieces pieces in any order
PieceLists == UNION {[1..n -> Pieces] : n \in 0..MaxPieces}

\* Response.EvalCount and Response.EvalDuration (nanoseconds)
EvalCounts == {0, 1, 50}

EvalDurations == {0, NanosPerSecond \div 2, NanosPerSecond, 2 * NanosPerSecond}

\* a response has arrived: any output text with the metrics of the spec's
\* example, or an empty text with any metrics
PureInit ==
    /\ build = "new"
    /\ args = [folders |-> <<>>, prompt |-> <<>>, recurse |-> FALSE]
    /\ settings = [APIBase |-> ApiBase, FolderBase |-> FolderBasePath,
                   Timeout |-> DocumentedTimeout]
    /\ fs = [d \in {} |-> NoFile]
    /\ disk0 = [d \in {} |-> NoFile]
    /\ now = 0
    /\ pc = "response"
    /\ index = 0
    /\ gen = NewStruct(<<>>, <<>>, <<>>, Zero64)
    /\ call = NoCall
    /\ resp = NoResponse
    /\ result = NotReturned
    /\ ctxDone = FALSE
    /\ sigChan = [buf |-> 0, closed |-> FALSE, registered |-> TRUE]
    /\ handler = [pc |-> "recv", signalled |-> FALSE]
    /\ spinner = "idle"
    /\ spinOpen = TRUE
    /\ proc = "running"
    /\ requests = <<>>
    /\ io = {}
    /\ outputs = <<>>
    /\ \E p \in PieceLists, c \in EvalCounts, d \in EvalDurations :
         /\ p = <<>> \/ (c = 50 /\ d = NanosPerSecond)
         /\ calc = [pieces |-> p, texts |-> <<Flatten(p)>>, evalCount |-> c,
                    evalDuration |-> d, tps |-> NoMetric]

\* the removal of the reasoning blocks, applied to the text it produced
\* last: once for the forwarding, and again as a later step would
Strip ==
    /\ pc = "response"
    /\ Len(calc.texts) <= 2
    /\ calc' = [calc EXCEPT
                  !.texts = Append(@, CleanedOutput(@[Len(@)]))]
    /\ UNCHANGED <<build, args, settings, fs, disk0, now, pc, index, gen, call,
                   resp, result, ctxDone, sigChan, handler, spinner, spinOpen,
                   proc, requests, io, outputs>>

\* tokens per second, as run computes it for the screen and for the log
Metrics ==
    /\ pc = "response"
    /\ calc.tps = NoMetric
    /\ calc' = [calc EXCEPT !.tps = Tps(calc.evalCount, calc.evalDuration)]
    /\ UNCHANGED <<build, args, settings, fs, disk0, now, pc, index, gen, call,
                   resp, result, ctxDone, sigChan, handler, spinner, spinOpen,
                   proc, requests, io, outputs>>

PureNext == Strip \/ Metrics

PureSpec == PureInit /\ [][PureNext]_vars

-----------------------------------------------------------------------------
(* Properties of run *)

\* the folder of the step at index j, as the step joins it
StepDir(j) == Join(FolderBaseFor, args.folders[j + 1])

\* the requests that were sent for the step at index j
RequestsOf(j) == {k \in 1..Len(requests) : requests[k].step = j}

\* the step at index j was carried through: its request was sent and
\* answered, its log was written and the loop went on
Completed(j) ==
    /\ j < index
    /\ RequestsOf(j) # {}
    /\ Len(outputs) > j
    /\ <<j, StepDir(j), "output.log", "write">> \in io

\* run has returned the error of NewGenerate or of Post
StepFailed ==
    /\ result.done
    /\ result.where \in {"error creating generate instance",
                         "error generating response"}

\* C1: a step that fails in resolving its files or in its request ends the
\* run: a request or a file access of a step is only ever made when every
\* step before it was carried through, and once run has returned the failure
\* of the step at index there is no request and no file access of a later
\* step, the failed step itself having done nothing but read its own folder.
C1_FailureEndsRun ==
    /\ \A e \in io : \A i \in 0..(e[1] - 1) : Completed(i)
    /\ \A k \in 1..Len(requests) : \A i \in 0..(requests[k].step - 1) : Completed(i)
    /\ StepFailed =>
         /\ \A k \in 1..Len(requests) : requests[k].step <= index
         /\ \A e \in io :
              /\ e[1] <= index
              /\ e[1] = index => e[4] = "read" /\ e[2] = StepDir(index)

\* the second of three chained steps got a status other than 200, and the
\* process is still there
C1_Witness ==
    /\ Running /\ StepFailed
    /\ ~args.recurse /\ Len(args.folders) = 3 /\ index = 1
    /\ result.err.cause = "status"
    /\ Completed(0)

\* the step at index is under way in a chained run, and it is not the first
LaterStepUnderWay ==
    /\ Running /\ ~args.recurse
    /\ index >= 1 /\ index < Len(args.folders)
    /\ pc \in {"loop", "spin_start", "post", "inflight", "spin_stop", "forward"}

\* C2: in a chained run the output of a step that is not the last one goes
\* into prompt.txt of the next folder with every think block removed, and
\* the next step sends exactly that text as its prompt: while a later step
\* is under way its prompt.txt holds the cleaned output of the step before
\* it, a forwarding leaves the cleaned output of the current step in the
\* next folder, no think tag is left in it, and every request of a later
\* step carries the cleaned output of the step before it.
C2_ForwardedPromptIsCleanedOutput ==
    /\ LaterStepUnderWay =>
         fs[StepDir(index)].prompt = File(CleanedOutput(outputs[index]))
    /\ (Running /\ pc = "log" /\ Forwards) =>
         /\ fs[NextPromptDir].prompt = File(CleanedOutput(resp.output))
         /\ IndexFrom(fs[NextPromptDir].prompt.text, OpenTag, 1) = 0
         /\ IndexFrom(fs[NextPromptDir].prompt.text, CloseTag, 1) = 0
    /\ ~args.recurse =>
         \A k \in 1..Len(requests) :
            requests[k].step >= 1 =>
               requests[k].req.prompt = CleanedOutput(outputs[requests[k].step])

\* the third step of a chain has sent its request, the second step's output
\* having had a think block
C2_Witness ==
    /\ ~args.recurse /\ Len(requests) = 3
    /\ requests[3].step = 2
    /\ IndexFrom(outputs[2], OpenTag, 1) > 0
    /\ requests[3].req.prompt = <<"y", "o">>

\* run has returned the cancellation error of Post
CancelledFailure ==
    result = Failed("error generating response", Error("post", "context canceled"))

\* C3: when the context of run is cancelled while a request is outstanding,
\* the step ends, and ends only, as a failure with the cancellation error (or
\* the process is gone): the outstanding call is never answered with success
\* and the run does not stay in the call for ever.
C3_CancelAbortsRequest ==
    /\ [][(pc = "inflight" /\ ctxDone /\ pc' # pc)
             => (CancelledFailure' \/ proc' # "running")]_vars
    /\ (pc = "inflight" /\ ctxDone) ~> (CancelledFailure \/ proc # "running")

\* the cancellation error was returned for the second step of a chain while
\* the process is still there
C3_Witness ==
    /\ Running /\ CancelledFailure
    /\ index = 1 /\ Len(requests) = 2
    /\ call.status = 0 /\ ~call.active

\* the artifacts of the step at index j in the files f: its log, and the
\* prompt.txt it forwarded
Artifacts(f, j) ==
    [log |-> {l \in f[StepDir(j)].logs : l.step = j},
     forwarded |-> IF ~args.recurse /\ j + 1 < Len(args.folders)
                   THEN f[StepDir(j + 1)].prompt ELSE NoFile]

\* C4: once the context of run is cancelled no request is sent any more, and
\* the logs and forwarded prompt.txt files of the steps completed before
\* stay as they are.
C4_CancelledRunKeepsArtifacts ==
    [][ctxDone =>
          /\ requests' = requests
          /\ \A j \in 0..(index - 1) : Artifacts(fs', j) = Artifacts(fs, j)]_vars

\* a request was sent, or its sending refused
CallMade == Running /\ call # NoCall

\* C5: with "timeout" N > 0 the deadline of every request is N seconds after
\* the request began, and no request ends with the deadline error before N
\* seconds have passed.
C5_DeadlineIsTimeoutSeconds ==
    (CallMade /\ settings.Timeout > 0) =>
        /\ call.deadline = Seconds(Nat64(settings.Timeout))
        /\ result.err.cause = "context deadline exceeded"
             => Elapsed >= settings.Timeout

\* C6: a step sends at most one POST, the requests following the order of the
\* steps, and an error of Post is at once the result of run, so that no other
\* attempt follows it.
C6_OneRequestPerStep ==
    /\ \A k, l \in 1..Len(requests) :
          k < l => requests[k].step < requests[l].step
    /\ \A k \in 1..Len(requests) : requests[k].step <= index
    /\ (Running /\ resp.err # NoError) =>
          /\ result = Failed("error generating response", resp.err)
          /\ pc = "returned"

\* the one request of the second step failed in the transport, after the
\* request of the first step had succeeded
C6_Witness ==
    /\ Running /\ Len(requests) = 2 /\ index = 1
    /\ resp.err = Error("post", "send POST request")
    /\ Len(outputs) = 1

\* the endpoint has answered the request of the step at index with a status
\* other than 200
AnsweredNot200 == Running /\ call.status \notin {0, StatusOK}

\* C7: when the endpoint answers with a status other than 200, Post returns
\* the empty Response and an error that carries that status; the body is not
\* decoded, run returns the error, and the step writes neither a prompt.txt
\* nor a log.
C7_StatusErrorCarriesCode ==
    AnsweredNot200 =>
        /\ ~resp.ok /\ resp.output = <<>>
        /\ resp.err.cause = "status" /\ resp.err.code = call.status
        /\ result = Failed("error generating response", resp.err)
        /\ Len(outputs) = index
        /\ \A e \in io : e[1] = index => e[4] = "read"
        /\ \A d \in DOMAIN fs :
              /\ fs[d].prompt.ok => fs[d].prompt.text # call.body
              /\ \A l \in fs[d].logs : l.step # index /\ l.response # call.body

\* the second step of a chain was answered with 500
C7_Witness ==
    /\ AnsweredNot200 /\ call.status = 500
    /\ index = 1 /\ Len(args.folders) >= 2 /\ ~args.recurse
    /\ call.body = ErrorBody

\* the prompt.txt of the folder d is missing
NoPromptFile(d) == ~(Exists(fs, d) /\ fs[d].prompt.ok)

\* C8: a step without a prompt of -p whose folder has no prompt.txt sends no
\* request, and the read of the missing prompt.txt is a failure of the run
\* at that step.
C8_MissingPromptFailsStep ==
    /\ \A k \in 1..Len(requests) :
          PromptFor(requests[k].step) = <<>>
              => ~NoPromptFile(StepDir(requests[k].step))
    /\ \A e \in io :
          (e[3] = "prompt.txt" /\ e[4] = "read" /\ NoPromptFile(e[2])) =>
              /\ index = e[1]
              /\ result.done /\ result.err.cause = "read prompt.txt"
              /\ RequestsOf(e[1]) = {}

\* a chained run without -p whose first folder has no prompt.txt has failed
\* at its first step, no request sent
C8_Witness ==
    /\ ~args.recurse /\ args.prompt = <<>> /\ index = 0
    /\ NoPromptFile(StepDir(0))
    /\ result.done /\ result.err.cause = "read prompt.txt"
    /\ requests = <<>>

\* C9: in a chained run no step after the first fails for want of a
\* prompt.txt: whenever such a step is under way its folder holds the file,
\* and whenever such a step read the file the step before it had written it.
C9_LaterStepsNeedNoPrompt ==
    ~args.recurse =>
        /\ index >= 1 => result.err.cause # "read prompt.txt"
        /\ LaterStepUnderWay => ~NoPromptFile(StepDir(index))
        /\ \A e \in io :
              (e[1] >= 1 /\ e[3] = "prompt.txt" /\ e[4] = "read") =>
                  <<e[1] - 1, e[2], "prompt.txt", "write">> \in io

\* the second step has sent its request though its folder had no prompt.txt
\* when the run began
C9_Witness ==
    /\ ~args.recurse /\ Len(requests) = 2 /\ requests[2].step = 1
    /\ ~disk0[StepDir(1)].prompt.ok
    /\ <<1, StepDir(1), "prompt.txt", "read">> \in io

\* C10: in a chained run with -p the request of the first step carries the
\* text of -p and the first step does not read prompt.txt; the request of
\* every later step carries what its own prompt.txt held, which the step has
\* read, and not the text of -p.
C10_OverrideForFirstStepOnly ==
    (~args.recurse /\ args.prompt # <<>>) =>
        /\ \A e \in io : ~(e[1] = 0 /\ e[3] = "prompt.txt" /\ e[4] = "read")
        /\ \A k \in 1..Len(requests) :
              LET j == requests[k].step
              IN  IF j = 0 THEN requests[k].req.prompt = args.prompt
                  ELSE /\ requests[k].req.prompt # args.prompt
                       /\ requests[k].req.prompt = CleanedOutput(outputs[j])
                       /\ <<j, StepDir(j), "prompt.txt", "read">> \in io

\* a chain with -p whose first folder holds a prompt.txt has sent the
\* requests of three steps
C10_Witness ==
    /\ ~args.recurse /\ args.prompt = Override
    /\ disk0[StepDir(0)].prompt.ok
    /\ Len(requests) = 3
    /\ requests[1].req.prompt = Override
    /\ requests[3].req.prompt = <<"y", "o">>

\* C11: in a run with -r and -p every request carries the text of -p as its
\* prompt, and no prompt.txt is read or written by any step.
C11_RecursionOverrideEveryStep ==
    (args.recurse /\ args.prompt # <<>>) =>
        /\ \A k \in 1..Len(requests) : requests[k].req.prompt = args.prompt
        /\ \A e \in io : e[3] # "prompt.txt"

\* a run with -r and -p has sent the same prompt for two subfolders, of which
\* the first held a prompt.txt and the second none
C11_Witness ==
    /\ args.recurse /\ args.prompt = Override
    /\ Len(requests) >= 2
    /\ requests[1].req.prompt = Override /\ requests[2].req.prompt = Override
    /\ requests[1].step = 0 /\ requests[2].step = 1
    /\ disk0[StepDir(0)].prompt.ok /\ ~disk0[StepDir(1)].prompt.ok

\* C12: in a run with -r nothing is forwarded: no step writes a prompt.txt,
\* every prompt.txt is as it was when the run began, and the prompt of every
\* request is the text of -p or what the prompt.txt of its own folder held
\* before the run, whatever the earlier steps have put out.
C12_RecursionForwardsNothing ==
    args.recurse =>
        /\ \A e \in io : ~(e[3] = "prompt.txt" /\ e[4] = "write")
        /\ \A d \in DOMAIN fs : fs[d].prompt = disk0[d].prompt
        /\ \A k \in 1..Len(requests) :
              requests[k].req.prompt =
                 IF args.prompt # <<>> THEN args.prompt
                 ELSE disk0[StepDir(requests[k].step)].prompt.text

\* a run with -r and without -p has carried its first step through and sent
\* the request of the second with the prompt.txt of the second subfolder
C12_Witness ==
    /\ args.recurse /\ args.prompt = <<>>
    /\ Completed(0) /\ Len(requests) = 2
    /\ requests[2].req.prompt = disk0[StepDir(1)].prompt.text
    /\ requests[2].req.prompt # CleanedOutput(outputs[1])

\* the config.json of the folder of the step at index j was there and
\* well-formed when the run began
ConfigLoads(j) ==
    Exists(disk0, StepDir(j)) /\ disk0[StepDir(j)].config.state = "ok"

\* the options that config.json of the step at index j resolves to
ResolvedOptions(j) ==
    LET c == disk0[StepDir(j)].config
    IN  [o \in OptionNames |->
            IF o \in c.keys THEN c.options[o] ELSE DocumentedOptions[o]]

\* C13: when the config.json of a step was loaded, every option the file
\* leaves out has its documented default and every option it sets has the
\* value of the file, 0 included, in the Generate value of the step and in
\* the request the step sends.
C13_OptionsDefaultUnlessSet ==
    /\ \A k \in 1..Len(requests) :
          ConfigLoads(requests[k].step) =>
              requests[k].req.options = ResolvedOptions(requests[k].step)
    /\ (Running /\ pc \in {"spin_start", "post", "inflight"} /\ ConfigLoads(index)) =>
          gen.modelConfig.options = ResolvedOptions(index)

\* a request was sent from a folder whose config.json sets two of the options
\* to 0 and leaves the other two out
C13_Witness ==
    /\ Len(requests) = 1 /\ ConfigLoads(0)
    /\ disk0[StepDir(0)].config.keys = {"num_ctx", "temperature"}
    /\ requests[1].req.options =
          [num_ctx |-> 0, repeat_last_n |-> 64, repeat_penalty |-> 11,
           temperature |-> 0]

\* C14: every request that is sent has stream = false and raw = false.
C14_StreamAndRawFalse ==
    \A k \in 1..Len(requests) : ~requests[k].req.stream /\ ~requests[k].req.raw

\* requests were sent for two subfolders in a run with -r and -p, by the
\* version of the package that builds the request in Post from the folder
C14_Witness ==
    /\ args.recurse /\ args.prompt # <<>> /\ build = "old"
    /\ Len(requests) = 2
    /\ requests[2].req.stream = FALSE /\ requests[2].req.raw = FALSE
    /\ requests[2].req.model = "llama3.2"

\* the log of the step at index j was written and the loop went on
LogWritten(j) ==
    j < index /\ <<j, StepDir(j), "output.log", "write">> \in io

RoutingCutShort ==
    \/ Running /\ pc \in {"spin_stop", "forward", "log"}
    \/ result = Nil /\ index < Len(args.folders)
    \/ /\ result.done
       /\ result.where \in {"error writing prompt.txt", "error writing output.log"}
    \/ ~result.done /\ proc \in {"killed", "panicked"}

C16_StepsInListOrder ==
    [][/\ \A e \in io' \ io : e[1] = index
       /\ Len(requests') > Len(requests) =>
             /\ Len(requests') = Len(requests) + 1
             /\ requests'[Len(requests')].step = index
       /\ index' # index =>
             /\ index' = index + 1
             /\ <<index, StepDir(index), "output.log", "write">> \in io' \ io
             /\ Forwards => <<index, NextPromptDir, "prompt.txt", "write">> \in io]_vars

\* the second step of a chain has read its folder after the first step
\* forwarded its output and wrote its log
C16_Witness ==
    /\ ~args.recurse /\ index = 1 /\ Running /\ pc = "spin_start"
    /\ Completed(0)
    /\ <<0, StepDir(1), "prompt.txt", "write">> \in io
    /\ \E e \in io : e[1] = 1 /\ e[4] = "read"

\* C17: a cancellation that run meets between two steps, at the select before
\* the request of the next step, ends the run as a cancellation during a
\* request does: no request is sent, and if run returns it returns the
\* cancellation error.
C17_CancelBetweenStepsAborts ==
    [][(Running /\ ctxDone /\ index >= 1 /\ pc = "spin_start") =>
          /\ requests' = requests
          /\ result'.done => CancelledFailure']_vars

\* what a run has done and where it stands
RunState == <<pc, index, gen, call, resp, result, fs, requests, io, outputs, proc>>

EndedBy(cause) ==
    /\ Running /\ result.done
    /\ result.where = "error generating response"
    /\ result.err.cause = cause

C20_NoDeadlineWithoutTimeout ==
    (Running /\ settings.Timeout <= 0) =>
        /\ result.err.cause # "context deadline exceeded"
        /\ call # NoCall => ~TimerDue(call.deadline, Elapsed)

\* the config.json of the step at index j cannot be loaded
ConfigUnloadable(j) == ReadConfig(fs, StepDir(j)).state # "ok"

\* C21: a step whose config.json is missing or is not valid JSON fails with
\* an error of loading the files of its folder, and no request is sent for
\* it: once the step has been taken up, run has returned the error of
\* NewGenerate and the endpoint has seen nothing of the step.
C21_UnloadableConfigFailsStep ==
    \A j \in 0..(Len(args.folders) - 1) :
        ConfigUnloadable(j) =>
            /\ RequestsOf(j) = {}
            /\ (Running /\ index = j /\ pc # "loop") =>
                   /\ result.done
                   /\ result.where = "error creating generate instance"

\* C22: format.json gives the output format of a step only when config.json
\* names none: every request of a step whose config.json names a format
\* carries that format, whatever format.json holds.
C22_ConfigFormatIsKept ==
    \A k \in 1..Len(requests) :
        LET c == ReadConfig(disk0, StepDir(requests[k].step))
        IN  (c.state = "ok" /\ c.format # "") => requests[k].req.format = c.format

\* the path an error of run prints: the errors of os.ReadFile and
\* os.WriteFile are *fs.PathError values whose text holds the path of the
\* file, every other error prints no path
ErrorPath ==
    CASE result.err.cause \in {"read config.json", "read system.txt",
                               "read prompt.txt"} -> StepDir(index)
      [] result.where = "error writing prompt.txt" -> StepDir(index + 1)
      [] result.where = "error writing output.log" -> StepDir(index)
      [] OTHER -> <<>>

\* C23: every error run returns names the folder of the step that failed
\* along with the cause: the text of the error holds the path of that folder.
C23_ErrorNamesStep ==
    (result.done /\ result.err # NoError) =>
        /\ result.err.cause # ""
        /\ ErrorPath = StepDir(index)

\* the removal has been applied n times to the output text
Stripped(n) == Len(calc.texts) > n

\* C24: removing the reasoning blocks is idempotent: applied to a text it
\* has produced, the removal gives that text back.
C24_StripIdempotent ==
    Stripped(2) => calc.texts[3] = calc.texts[2]

\* how often pat occurs in s from position from on
RECURSIVE Occurrences(_, _, _)
Occurrences(s, pat, from) ==
    LET p == IndexFrom(s, pat, from)
    IN  IF p = 0 THEN 0 ELSE 1 + Occurrences(s, pat, p + 1)

\* how many of the pieces are the given one
RECURSIVE CountOf(_, _)
CountOf(p, x) ==
    IF p = <<>> THEN 0
    ELSE (IF Head(p) = x THEN 1 ELSE 0) + CountOf(Tail(p), x)

\* the pieces form blocks: an open marker, text, a close marker, with text
\* around them, no block inside another
RECURSIVE Paired(_, _)
Paired(p, inside) ==
    IF p = <<>> THEN ~inside
    ELSE IF Head(p) = OpenTag THEN ~inside /\ Paired(Tail(p), TRUE)
    ELSE IF Head(p) = CloseTag THEN inside /\ Paired(Tail(p), FALSE)
    ELSE Paired(Tail(p), inside)

\* the text is a sequence of blocks that do not overlap, and holds no marker
\* but theirs
NonOverlappingBlocks(p) ==
    /\ Paired(p, FALSE)
    /\ Occurrences(Flatten(p), OpenTag, 1) = CountOf(p, OpenTag)
    /\ Occurrences(Flatten(p), CloseTag, 1) = CountOf(p, CloseTag)

\* the text outside the blocks, in its order
RECURSIVE OutsideText(_, _)
OutsideText(p, inside) ==
    IF p = <<>> THEN <<>>
    ELSE IF Head(p) = OpenTag THEN OutsideText(Tail(p), TRUE)
    ELSE IF Head(p) = CloseTag THEN OutsideText(Tail(p), FALSE)
    ELSE IF inside THEN OutsideText(Tail(p), inside)
    ELSE Head(p) \o OutsideText(Tail(p), inside)

\* C25: of a text made of blocks that do not overlap, the removal leaves
\* exactly the text outside the blocks, in its order: every block goes with
\* its two markers, whether or not it spans a line break.
C25_StripRemovesEveryBlock ==
    (Stripped(1) /\ NonOverlappingBlocks(calc.pieces)) =>
        calc.texts[2] = OutsideText(calc.pieces, FALSE)

\* two blocks with text between them, one block spanning a line break, have
\* been removed
C25_Witness ==
    /\ Stripped(1)
    /\ calc.pieces = <<OpenTag, Plain, CloseTag, Plain, OpenTag, CloseTag>>
    /\ calc.texts[2] = Plain

\* C26: tokens per second is the count over the duration in seconds, 50.00
\* for 50 tokens in a second, and no value at all when the duration is 0.
C26_TpsUndefinedAtZero ==
    /\ calc.evalDuration = 0 => calc.tps = NoMetric
    /\ (calc.evalDuration # 0 /\ calc.tps # NoMetric) =>
           /\ calc.tps.kind = "number"
           /\ calc.tps.hundredths * (calc.evalDuration \div Hundredth)
                  = calc.evalCount * 10000
    /\ (calc.evalCount = 50 /\ calc.evalDuration = NanosPerSecond
           /\ calc.tps # NoMetric) => calc.tps = Number(5000)

\* the folder at index j of the list holds the three files of a step
HoldsAllFiles(j) ==
    /\ Exists(disk0, args.folders[j + 1])
    /\ disk0[args.folders[j + 1]].config.state = "ok"
    /\ disk0[args.folders[j + 1]].system.ok
    /\ disk0[args.folders[j + 1]].prompt.ok

\* C27: with -r and without -p every step works in the very path the walk
\* of the parent returned: every file access of a step is in that path, and
\* a step whose folder holds config.json, system.txt and prompt.txt does not
\* fail in reading them and sends prompt.txt as its prompt.
C27_RecursionUsesWalkedPath ==
    (args.recurse /\ args.prompt = <<>>) =>
        /\ \A e \in io : e[2] = args.folders[e[1] + 1]
        /\ \A k \in 1..Len(requests) :
             requests[k].req.prompt
                 = disk0[args.folders[requests[k].step + 1]].prompt.text
        /\ (result.done /\ index < Len(args.folders) /\ HoldsAllFiles(index)) =>
               result.err.cause \notin {"read config.json", "read system.txt",
                                        "read prompt.txt"}

\* the path of the parent folder of a run with -r
WalkedParent == Join(settings.FolderBase, ParentFolder)

\* C28: with -r the steps are the immediate subfolders of the parent and
\* nothing else: whatever a step reads, writes or requests, its folder lies
\* directly in the parent.
C28_OnlyImmediateSubfolders ==
    args.recurse =>
        /\ \A e \in io : Len(args.folders[e[1] + 1]) = Len(WalkedParent) + 1
        /\ \A k \in 1..Len(requests) :
             Len(args.folders[requests[k].step + 1]) = Len(WalkedParent) + 1

\* C29: run returns nil only when every step of the list had its request
\* answered and its log written; a run that stops earlier, stopped by a
\* cancellation or not, returns an error.
C29_NilOnlyWhenAllCompleted ==
    result = Nil => \A j \in 0..(Len(args.folders) - 1) : Completed(j)

\* the steps that wrote their log into folder d and went on
LoggedSteps(d) == {j \in 0..(index - 1) : <<j, d, "output.log", "write">> \in io}

\* C30: the log of a step never replaces the log of an earlier step: a
\* folder holds as many logs as steps have written one into it, however
\* close in time they were written.
C30_LogsNeverOverwritten ==
    \A d \in DOMAIN fs :
        Cardinality(fs[d].logs) = Cardinality(disk0[d].logs) + Cardinality(LoggedSteps(d))

\* C31: no signal is put on the signal channel once it is closed, so the
\* process never panics with a send on a closed channel, however the
\* signals fall around the end of run.
C31_NoSendOnClosedChannel ==
    proc # "panicked"

\* C32: the goroutine cancels the context and prints its message only when
\* a signal was delivered: it never does on a run that ends by itself.
C32_CancelOnlyOnSignal ==
    handler.pc = "done" => handler.signalled

\* the main goroutine is at one of its two handoffs to the spinner
AtHandoff == Running /\ pc \in {"spin_start", "spin_stop"}

\* C33: run never stays blocked in a handoff to the spinner: whenever the
\* main goroutine reaches one of its two select statements it leaves it
\* again, whether the spinner is there to receive or has returned because
\* the context was cancelled.
C33_HandoffNeverBlocks ==
    AtHandoff ~> ~AtHandoff

\* the main goroutine is at a handoff and the spinner has returned
C33_Witness ==
    AtHandoff /\ spinner = "exited" /\ index >= 1

\* the two goroutines run has started are over
GoroutinesOver == handler.pc \in {"done", "halted"} /\ spinner = "exited"

\* C34: once run has returned, by whatever path, the spinner and the signal
\* goroutine both come to an end, and they do so by themselves, whether or
\* not the process ends first; and while run goes on the spinner renders
\* only between the start of a request and the handoff after it.
C34_GoroutinesEnd ==
    /\ (pc = "returned") ~> GoroutinesOver
    /\ [](spinner = "spinning" =>
              pc \in {"post", "inflight", "spin_stop", "returned"})

\* run has returned the error of a request while the spinner was rendering,
\* the signal goroutine still waits, and the process is still there
C34_Witness ==
    /\ Running /\ pc = "returned" /\ StepFailed
    /\ spinner = "spinning" /\ handler.pc = "recv"

\* run has returned an error in a chained run at a step that has a next
\* folder, and no earlier step has forwarded into that folder
FailedBeforeLast ==
    /\ result.done /\ result.err # NoError
    /\ ~args.recurse /\ index + 1 < Len(args.folders)
    /\ \A j \in 0..(index - 1) : args.folders[j + 2] # args.folders[index + 2]

DistinctChain ==
    /\ ~args.recurse
    /\ \A i, j \in 1..Len(args.folders) : i # j => args.folders[i] # args.folders[j]

\* the writes a step at index j may make
WritesOf(j) ==
    {<<j, StepDir(j), "output.log", "write">>}
    \cup (IF j + 1 < Len(args.folders)
          THEN {<<j, StepDir(j + 1), "prompt.txt", "write">>} ELSE {})

\* C36: in a chained run over distinct folders the step at index writes
\* nothing but prompt.txt of the next folder, when there is one, and one new
\* log in its own folder: whatever the step does, config.json, system.txt
\* and format.json of every folder stay as they are, prompt.txt stays in
\* every folder but the next, no log is lost or changed, and at most one log
\* is added, to the folder of the step.
C36_StepWritesTwoFilesAtMost ==
    [][DistinctChain =>
         /\ \A e \in io' : e[4] = "write" => e \in WritesOf(e[1])
         /\ \A d \in DOMAIN fs :
              /\ d \in DOMAIN fs'
              /\ fs'[d].config = fs[d].config
              /\ fs'[d].system = fs[d].system
              /\ fs'[d].format = fs[d].format
              /\ fs'[d].prompt # fs[d].prompt =>
                     /\ index + 1 < Len(args.folders)
                     /\ d = StepDir(index + 1)
              /\ fs[d].logs \subseteq fs'[d].logs
              /\ fs'[d].logs # fs[d].logs =>
                     /\ d = StepDir(index)
                     /\ Cardinality(fs'[d].logs) = Cardinality(fs[d].logs) + 1
         /\ DOMAIN fs' = DOMAIN fs]_vars


\* the logs this run has written
RunLogs == UNION {{l \in fs[d].logs : l.step >= 0} : d \in DOMAIN fs}

====
